---- MODULE Spec2Model ----
(***************************************************************************)
(* Model of utils/call_llm.py: call_llm(prompt, use_cache) resolves the    *)
(* provider configuration from os.environ, issues one requests.post and    *)
(* maps the response or the exception raised to a return value or a raised *)
(* exception, writing to the process-wide logger on the way.               *)
(*                                                                         *)
(* Python values are represented as follows.                               *)
(*   str or None     [set |-> BOOLEAN, val |-> STRING]   (None: set=FALSE) *)
(*   parsed JSON     [t |-> "obj" | "arr" | "str", v |-> ...]              *)
(*   an expression   [ok |-> TRUE, val |-> v]  or                          *)
(*   that may raise  [ok |-> FALSE, cls |-> class name, text |-> str(e)]   *)
(***************************************************************************)
EXTENDS Integers, Sequences, FiniteSets, TLC

VARIABLES
    environ,           \* os.environ: names that are set -> their values
    json_error_bases,  \* classes the installed requests' JSONDecodeError has
    events,            \* log entries and requests.post calls so far, in order
    last,              \* the most recent invocation: prompt, what the network
                       \* did, the result, where its events start
    calls              \* invocations so far

vars == <<environ, json_error_bases, events, last, calls>>

(***************************************************************************)
(* Bounds of the model.                                                    *)
(***************************************************************************)
MaxCalls == 2

(***************************************************************************)
(* Python str-or-None values and truthiness (`if not x:`, `if x:`).        *)
(***************************************************************************)
None == [set |-> FALSE, val |-> ""]

Some(s) == [set |-> TRUE, val |-> s]

\* variant: only None is false
TruthyUnset(x) == x.set

Truthy(x) == x.set /\ x.val # ""

\* os.environ.get(key, default): the value bound to key, else the default.
EnvironGet(env, key, default) ==
    IF key \in DOMAIN env THEN Some(env[key]) ELSE default

\* s contains sub as a contiguous substring (Python's `sub in s`).
Contains(s, sub) ==
    \E i \in 1..(Len(s) - Len(sub) + 1) : SubSeq(s, i, i + Len(sub) - 1) = sub

(***************************************************************************)
(* Results of expressions that may raise.                                  *)
(***************************************************************************)
Ok(v) == [ok |-> TRUE, val |-> v]

Raise(cls, text) == [ok |-> FALSE, cls |-> cls, text |-> text]

(***************************************************************************)
(* Lines 36-55: configuration resolution.                                  *)
(***************************************************************************)
ModelVar(provider) == provider \o "_MODEL"

BaseUrlVar(provider) == provider \o "_BASE_URL"

ApiKeyVar(provider) == provider \o "_API_KEY"

RequiredMessage(var) == var \o " environment variable is required"

\* variant: the base URL is validated before the model
ResolveConfigBaseUrlFirst(env) ==
    LET provider == EnvironGet(env, "LLM_PROVIDER", None) IN
    IF ~Truthy(provider)
    THEN Raise("ValueError", RequiredMessage("LLM_PROVIDER"))
    ELSE LET model    == EnvironGet(env, ModelVar(provider.val), None)
             base_url == EnvironGet(env, BaseUrlVar(provider.val), None)
             api_key  == EnvironGet(env, ApiKeyVar(provider.val), Some(""))
         IN  IF ~Truthy(base_url)
             THEN Raise("ValueError", RequiredMessage(BaseUrlVar(provider.val)))
             ELSE IF ~Truthy(model)
             THEN Raise("ValueError", RequiredMessage(ModelVar(provider.val)))
             ELSE Ok([provider |-> provider.val, model |-> model.val,
                      base_url |-> base_url.val, api_key |-> api_key])

\* variant: the checks are `is None` instead of `not`
ResolveConfigUnsetOnly(env) ==
    LET provider == EnvironGet(env, "LLM_PROVIDER", None) IN
    IF ~TruthyUnset(provider)
    THEN Raise("ValueError", RequiredMessage("LLM_PROVIDER"))
    ELSE LET model    == EnvironGet(env, ModelVar(provider.val), None)
             base_url == EnvironGet(env, BaseUrlVar(provider.val), None)
             api_key  == EnvironGet(env, ApiKeyVar(provider.val), Some(""))
         IN  IF ~TruthyUnset(model)
             THEN Raise("ValueError", RequiredMessage(ModelVar(provider.val)))
             ELSE IF ~TruthyUnset(base_url)
             THEN Raise("ValueError", RequiredMessage(BaseUrlVar(provider.val)))
             ELSE Ok([provider |-> provider.val, model |-> model.val,
                      base_url |-> base_url.val, api_key |-> api_key])

ResolveConfig(env) ==
    LET provider == EnvironGet(env, "LLM_PROVIDER", None) IN
    IF ~Truthy(provider)
    THEN Raise("ValueError", RequiredMessage("LLM_PROVIDER"))
    ELSE LET model    == EnvironGet(env, ModelVar(provider.val), None)
             base_url == EnvironGet(env, BaseUrlVar(provider.val), None)
             api_key  == EnvironGet(env, ApiKeyVar(provider.val), Some(""))
         IN  IF ~Truthy(model)
             THEN Raise("ValueError", RequiredMessage(ModelVar(provider.val)))
             ELSE IF ~Truthy(base_url)
             THEN Raise("ValueError", RequiredMessage(BaseUrlVar(provider.val)))
             ELSE Ok([provider |-> provider.val, model |-> model.val,
                      base_url |-> base_url.val, api_key |-> api_key])

(***************************************************************************)
(* Lines 57-71: the request.                                               *)
(***************************************************************************)
Endpoint == "/v1/chat/completions"

\* variant: a trailing slash of the base URL is dropped
BuildUrlNormalised(base_url) ==
    IF Len(base_url) > 0 /\ SubSeq(base_url, Len(base_url), Len(base_url)) = "/"
    THEN SubSeq(base_url, 1, Len(base_url) - 1) \o Endpoint
    ELSE base_url \o Endpoint

BuildUrl(base_url) == base_url \o Endpoint

ContentTypeHeader == "Content-Type" :> "application/json"

\* variant: the Authorization header is set unconditionally
BuildHeadersAlwaysAuth(api_key) ==
    ContentTypeHeader @@ ("Authorization" :> ("Bearer " \o api_key.val))

BuildHeaders(api_key) ==
    IF Truthy(api_key)
    THEN ContentTypeHeader @@ ("Authorization" :> ("Bearer " \o api_key.val))
    ELSE ContentTypeHeader

\* temperature 0.7, held in tenths
TemperatureTenths == 7

BuildPayload(model, prompt) ==
    [model       |-> model,
     messages    |-> << [role |-> "user", content |-> prompt] >>,
     temperature |-> TemperatureTenths]

(***************************************************************************)
(* Parsed JSON values and the Python operations the function applies to    *)
(* them.                                                                   *)
(***************************************************************************)
JStr(s) == [t |-> "str", v |-> s]

JArr(seq) == [t |-> "arr", v |-> seq]

JObj(f) == [t |-> "obj", v |-> f]

\* x[key] for a str key
GetKey(x, key) ==
    CASE x.t = "obj" -> IF key \in DOMAIN x.v
                        THEN Ok(x.v[key])
                        ELSE Raise("KeyError", "'" \o key \o "'")
      [] x.t = "arr" -> Raise("TypeError", "list indices must be integers or slices, not str")
      [] x.t = "str" -> Raise("TypeError", "string indices must be integers, not 'str'")

\* variant: x[-1]
GetLast(x) ==
    CASE x.t = "arr" -> IF Len(x.v) > 0
                        THEN Ok(x.v[Len(x.v)])
                        ELSE Raise("IndexError", "list index out of range")
      [] x.t = "obj" -> Raise("KeyError", "-1")
      [] x.t = "str" -> IF Len(x.v) > 0
                        THEN Ok(JStr(SubSeq(x.v, Len(x.v), Len(x.v))))
                        ELSE Raise("IndexError", "string index out of range")

\* x[0]
GetFirst(x) ==
    CASE x.t = "arr" -> IF Len(x.v) > 0
                        THEN Ok(x.v[1])
                        ELSE Raise("IndexError", "list index out of range")
      [] x.t = "obj" -> Raise("KeyError", "0")
      [] x.t = "str" -> IF Len(x.v) > 0
                        THEN Ok(JStr(SubSeq(x.v, 1, 1)))
                        ELSE Raise("IndexError", "string index out of range")

\* x.get(key, default)
DictGet(x, key, default) ==
    CASE x.t = "obj" -> Ok(IF key \in DOMAIN x.v THEN x.v[key] ELSE default)
      [] x.t = "arr" -> Raise("AttributeError", "'list' object has no attribute 'get'")
      [] x.t = "str" -> Raise("AttributeError", "'str' object has no attribute 'get'")

\* str(x) as an f-string formats it; the error details of the bodies
\* considered are strings.
PyStr(x) == CASE x.t = "str" -> x.v

\* ["choices"][0]["message"]["content"]
Content(body) ==
    LET choices == GetKey(body, "choices") IN
    IF ~choices.ok THEN choices ELSE
    LET first == GetFirst(choices.val) IN
    IF ~first.ok THEN first ELSE
    LET message == GetKey(first.val, "message") IN
    IF ~message.ok THEN message ELSE
    GetKey(message.val, "content")

(***************************************************************************)
(* The requests library as the function uses it.                           *)
(* A response is [status_code, reason, body], where body is                *)
(* [wellformed |-> BOOLEAN, value |-> parsed JSON, or the raw text].       *)
(***************************************************************************)
\* The classes an exception is an instance of.  Which classes the error of
\* Response.json() derives from depends on the installed requests:
\* json_error_bases holds them.
Bases(cls) ==
    CASE cls = "HTTPError"        -> {"HTTPError", "RequestException"}
      [] cls = "ConnectionError"  -> {"ConnectionError", "RequestException"}
      [] cls = "ConnectTimeout"   -> {"ConnectTimeout", "ConnectionError", "Timeout",
                                      "RequestException"}
      [] cls = "ReadTimeout"      -> {"ReadTimeout", "Timeout", "RequestException"}
      [] cls = "TooManyRedirects" -> {"TooManyRedirects", "RequestException"}
      [] cls = "JSONDecodeError"  -> json_error_bases
      [] OTHER                    -> {cls}

IsInstance(exc, class) == class \in Bases(exc.cls)

\* response.json()
ResponseJson(response) ==
    IF response.body.wellformed
    THEN Ok(response.body.value)
    ELSE Raise("JSONDecodeError", "Expecting value: line 1 column 1 (char 0)")

\* response.raise_for_status()
RaiseForStatus(response, url) ==
    IF 400 <= response.status_code /\ response.status_code < 500
    THEN Raise("HTTPError", ToString(response.status_code) \o " Client Error: "
                            \o response.reason \o " for url: " \o url)
    ELSE IF 500 <= response.status_code /\ response.status_code < 600
    THEN Raise("HTTPError", ToString(response.status_code) \o " Server Error: "
                            \o response.reason \o " for url: " \o url)
    ELSE Ok(None)

(***************************************************************************)
(* Side effects, in the order they happen: entries written to the logger   *)
(* and calls of requests.post.                                             *)
(***************************************************************************)
\* logger.info(f"PROMPT: {prompt}")
LogPrompt(prompt) ==
    [kind |-> "log", level |-> "INFO", message |-> "PROMPT: " \o prompt]

\* logger.info("RESPONSE:\n%s", json.dumps(response_json, indent=2)); arg is
\* the parsed value that is serialised into the entry.
LogResponse(response_json) ==
    [kind |-> "log", level |-> "INFO", message |-> "RESPONSE:\n%s",
     arg |-> response_json]

PostEvent(url, headers, payload) ==
    [kind |-> "post", url |-> url, headers |-> headers, json |-> payload]

\* variant: a payload already posted is answered without a request
RequestsPostCached(url, headers, payload) ==
    IF \E i \in DOMAIN events :
           events[i].kind = "post" /\ events[i].json = payload
    THEN << >>
    ELSE << PostEvent(url, headers, payload) >>

\* requests.post(url, headers=headers, json=payload): called once
RequestsPost(url, headers, payload) == << PostEvent(url, headers, payload) >>

(***************************************************************************)
(* Lines 73-79: the body of the try statement.  net is what the network    *)
(* does with the request: Ok(response) or Raise(a requests exception).     *)
(***************************************************************************)
\* variant: the response is logged after raise_for_status
TryBlockLogAfterStatus(url, headers, payload, net) ==
    LET sent == RequestsPost(url, headers, payload) IN
    IF ~net.ok THEN [events |-> sent, result |-> net] ELSE
    LET response_json == ResponseJson(net.val) IN
    IF ~response_json.ok THEN [events |-> sent, result |-> response_json] ELSE
    LET status == RaiseForStatus(net.val, url) IN
    IF ~status.ok THEN [events |-> sent, result |-> status] ELSE
    [events |-> sent \o << LogResponse(response_json.val) >>,
     result |-> Content(response_json.val)]

TryBlock(url, headers, payload, net) ==
    LET sent == RequestsPost(url, headers, payload) IN
    IF ~net.ok THEN [events |-> sent, result |-> net] ELSE
    LET response_json == ResponseJson(net.val) IN
    IF ~response_json.ok THEN [events |-> sent, result |-> response_json] ELSE
    LET logged == sent \o << LogResponse(response_json.val) >>
        status == RaiseForStatus(net.val, url) IN
    IF ~status.ok THEN [events |-> logged, result |-> status] ELSE
    [events |-> logged, result |-> Content(response_json.val)]

(***************************************************************************)
(* Lines 80-95: the except clauses, tried in order; an exception that no   *)
(* clause matches propagates unchanged.                                    *)
(***************************************************************************)
HttpErrorMessage(exc, net) ==
    LET error_message == "HTTP error occurred: " \o exc.text
        response_json == ResponseJson(net.val)
        error_details == IF response_json.ok
                         THEN DictGet(response_json.val, "error",
                                      JStr("No additional details"))
                         ELSE response_json
    IN  IF error_details.ok
        THEN error_message \o " (Details: " \o PyStr(error_details.val) \o ")"
        ELSE error_message

Except(exc, provider, net) ==
    IF IsInstance(exc, "HTTPError")
    THEN Raise("Exception", HttpErrorMessage(exc, net))
    ELSE IF IsInstance(exc, "ConnectionError")
    THEN Raise("Exception", "Failed to connect to " \o provider
                            \o " API. Check your network connection.")
    ELSE IF IsInstance(exc, "Timeout")
    THEN Raise("Exception", "Request to " \o provider \o " API timed out.")
    ELSE IF IsInstance(exc, "RequestException")
    THEN Raise("Exception", "An error occurred while making the request to "
                            \o provider \o ": " \o exc.text)
    ELSE IF IsInstance(exc, "ValueError")
    THEN Raise("Exception", "Failed to parse response as JSON from " \o provider
                            \o ". The server might have returned an invalid response.")
    ELSE exc

(***************************************************************************)
(* Lines 24-95: call_llm.  The result is Ok(the value returned) or         *)
(* Raise(the exception that reaches the caller); events are the side       *)
(* effects of the invocation in order.  use_cache is not read.             *)
(***************************************************************************)
call_llm(prompt, use_cache, env, net) ==
    LET config == ResolveConfig(env) IN
    IF ~config.ok
    THEN [events |-> << LogPrompt(prompt) >>, result |-> config, sent |-> FALSE]
    ELSE LET url     == BuildUrl(config.val.base_url)
             headers == BuildHeaders(config.val.api_key)
             payload == BuildPayload(config.val.model, prompt)
             try     == TryBlock(url, headers, payload, net)
         IN  [events |-> << LogPrompt(prompt) >> \o try.events,
              result |-> IF try.result.ok
                         THEN try.result
                         ELSE Except(try.result, config.val.provider, net),
              sent   |-> TRUE]

(***************************************************************************)
(* Inputs.                                                                 *)
(***************************************************************************)
Prompts == {"ping", "Hello, how are you?"}

Choice(content) == JObj("message" :> JObj("content" :> JStr(content)))

Bodies ==
    { [wellformed |-> TRUE,
       value |-> JObj("choices" :> JArr(<< Choice("hi"), Choice("yo") >>))],
      [wellformed |-> TRUE, value |-> JObj("error" :> JStr("boom"))],
      [wellformed |-> TRUE, value |-> JObj("choices" :> JArr(<< >>))],
      [wellformed |-> TRUE,
       value |-> JObj("choices" :> JArr(<< JObj("index" :> JStr("0")) >>))],
      [wellformed |-> TRUE,
       value |-> JObj("choices" :> JArr(<< JObj("message" :> JObj("role" :> JStr("assistant"))) >>))],
      [wellformed |-> TRUE, value |-> JArr(<< >>)],
      [wellformed |-> TRUE,
       value |-> JObj("error" :> JStr("boom") @@ "choices" :> JArr(<< Choice("hi") >>))],
      [wellformed |-> FALSE, value |-> JStr("<html>Bad Gateway</html>")] }

Reason(status_code) ==
    CASE status_code = 200 -> "OK"
      [] status_code = 500 -> "Internal Server Error"

StatusCodes == {200, 500}

Responses ==
    { [status_code |-> s, reason |-> Reason(s), body |-> b] :
          s \in StatusCodes, b \in Bodies }

TransportFailures ==
    { Raise("ConnectionError", "Connection refused"),
      Raise("ConnectTimeout", "Connection timed out"),
      Raise("ReadTimeout", "Read timed out"),
      Raise("TooManyRedirects", "Exceeded 30 redirects") }

Network == { Ok(r) : r \in Responses } \cup TransportFailures

NotSent == Raise("NotSent", "")

\* The environment in which the names of `bindings` that are set are bound.
EnvOf(bindings) ==
    [ name \in { b[1] : b \in { c \in bindings : c[2].set } } |->
          (CHOOSE b \in bindings : b[1] = name)[2].val ]

Environments ==
    { EnvOf({ <<"LLM_PROVIDER", provider>>,
              <<"OLLAMA_MODEL", model>>,
              <<"OLLAMA_BASE_URL", base_url>>,
              <<"OLLAMA_API_KEY", api_key>>,
              <<"XAI_MODEL", Some("grok")>>,
              <<"XAI_BASE_URL", Some("https://api.x.ai")>>,
              <<"XAI_API_KEY", Some("xk")>> }) :
          provider \in {None, Some(""), Some("OLLAMA")},
          model    \in {None, Some(""), Some("llama3")},
          base_url \in {None, Some(""), Some("http://localhost:11434"),
                        Some("http://localhost:11434/")},
          api_key  \in {None, Some(""), Some("sk")} }
    \cup
    { EnvOf({ <<"LLM_PROVIDER", Some("XAI")>>,
              <<"XAI_MODEL", model>>,
              <<"XAI_BASE_URL", Some("https://api.x.ai")>>,
              <<"XAI_API_KEY", Some("xk")>> }) :
          model \in {None, Some("grok")} }

JsonErrorBases ==
    { {"JSONDecodeError", "ValueError"},
      {"JSONDecodeError", "InvalidJSONError", "RequestException", "ValueError"} }

(***************************************************************************)
(* The state machine: a process that calls call_llm repeatedly.            *)
(***************************************************************************)
Init ==
    /\ environ \in Environments
    /\ json_error_bases \in JsonErrorBases
    /\ events = << >>
    /\ last = [prompt |-> "", net |-> NotSent,
               result |-> NotSent, first |-> 1]
    /\ calls = 0

CallLlm ==
    /\ calls < MaxCalls
    /\ \E prompt \in Prompts, use_cache \in BOOLEAN, net \in Network :
          LET r == call_llm(prompt, use_cache, environ, net) IN
          /\ events' = events \o r.events
          /\ last' = [prompt |-> prompt,
                      net |-> IF r.sent THEN net ELSE NotSent,
                      result |-> r.result, first |-> Len(events) + 1]
    /\ calls' = calls + 1
    /\ UNCHANGED <<environ, json_error_bases>>

Next == CallLlm

Spec == Init /\ [][Next]_vars

(***************************************************************************)
(* Vocabulary of the properties.                                           *)
(***************************************************************************)
Called == calls > 0

\* the side effects of the most recent invocation, in order
ThisCall == SubSeq(events, last.first, Len(events))

IsPost(e) == e.kind = "post"

IsLog(e) == e.kind = "log"

Posts(seq) == SelectSeq(seq, IsPost)

Logs(seq) == SelectSeq(seq, IsLog)

Absent(name) == name \notin DOMAIN environ

Empty(name) == name \in DOMAIN environ /\ environ[name] = ""

Missing(name) == Absent(name) \/ Empty(name)

\* the selected provider, when LLM_PROVIDER is set to a non-empty value
ProviderSelected == ~Missing("LLM_PROVIDER")

Provider == environ["LLM_PROVIDER"]

ValidConfig ==
    /\ ProviderSelected
    /\ ~Missing(Provider \o "_MODEL")
    /\ ~Missing(Provider \o "_BASE_URL")

\* the most recent invocation raised the configuration error naming `name`
\* and called requests.post at no point
FailsNaming(name) ==
    /\ ~last.result.ok
    /\ last.result.cls = "ValueError"
    /\ Contains(last.result.text, name)
    /\ Posts(ThisCall) = << >>

\* the most recent invocation raised the exception the except clauses build
Wrapped == ~last.result.ok /\ last.result.cls = "Exception"

Responded == Called /\ last.net.ok

Status == last.net.val.status_code

Body == last.net.val.body

TransportFailed == Called /\ ~last.net.ok /\ last.net.cls # "NotSent"

(***************************************************************************)
(* C1.  For each required variable, in the order LLM_PROVIDER, then        *)
(* <provider>_MODEL, then <provider>_BASE_URL: if it is absent when        *)
(* call_llm is invoked (the variables before it being set), the call       *)
(* raises the configuration error whose message names that variable, and   *)
(* requests.post is called at no point of the invocation.  Whenever any    *)
(* of them is absent the call raises a configuration error and posts       *)
(* nothing.                                                                *)
(***************************************************************************)
C1_AbsentVariableNamed ==
    Called =>
      /\ Absent("LLM_PROVIDER") => FailsNaming("LLM_PROVIDER")
      /\ ProviderSelected =>
           /\ Absent(Provider \o "_MODEL") => FailsNaming(Provider \o "_MODEL")
           /\ (~Missing(Provider \o "_MODEL") /\ Absent(Provider \o "_BASE_URL"))
                 => FailsNaming(Provider \o "_BASE_URL")
           /\ Absent(Provider \o "_BASE_URL")
                 => /\ ~last.result.ok
                    /\ last.result.cls = "ValueError"
                    /\ Posts(ThisCall) = << >>

C1_Witness ==
    /\ Called
    /\ ProviderSelected
    /\ Provider = "OLLAMA"
    /\ Absent("OLLAMA_MODEL")
    /\ Absent("OLLAMA_BASE_URL")
    /\ ~Absent("XAI_MODEL")
    /\ last.result = Raise("ValueError", "OLLAMA_MODEL environment variable is required")
    /\ ThisCall = << LogPrompt(last.prompt) >>

(***************************************************************************)
(* C2.  If the HTTP status of the response indicates failure (non-2xx),    *)
(* then for every response body (JSON with an `error` field, JSON without  *)
(* one, not JSON at all) call_llm raises the HTTP error, which carries the *)
(* status, and whenever the body has an `error` field the message contains *)
(* that field's value; no text is returned.                                *)
(***************************************************************************)
C2_HttpErrorForEveryBody ==
    (Responded /\ ~(200 <= Status /\ Status <= 299)) =>
      /\ Wrapped
      /\ Contains(last.result.text, "HTTP error occurred")
      /\ Contains(last.result.text, ToString(Status))
      /\ (Body.wellformed /\ Body.value.t = "obj" /\ "error" \in DOMAIN Body.value.v)
            => Contains(last.result.text, Body.value.v["error"].v)

(***************************************************************************)
(* C3.  As claimed: every invocation, whether it succeeds or fails, writes *)
(* two log entries, the prompt before the HTTP call and an entry for the   *)
(* response or the failure after it.                                       *)
(***************************************************************************)
C3_TwoLogEntriesEveryInvocation ==
    Called =>
      /\ Len(Logs(ThisCall)) = 2
      /\ ThisCall[1] = LogPrompt(last.prompt)
      /\ Len(ThisCall) = 3
      /\ IsPost(ThisCall[2])
      /\ IsLog(ThisCall[3])

(***************************************************************************)
(* C3, amended.  Every invocation first writes the full prompt, before any *)
(* HTTP call.  A second entry, the full parsed response, is written after  *)
(* the call exactly when the POST returned a response whose body parses as *)
(* JSON, whatever its status; an invocation that fails on configuration,   *)
(* in transport or on a body that is not JSON writes the prompt entry only.*)
(***************************************************************************)
C3_PromptFirstResponseIfParsed ==
    Called =>
      /\ Len(ThisCall) >= 1
      /\ ThisCall[1] = LogPrompt(last.prompt)
      /\ IF Responded /\ Body.wellformed
         THEN /\ Len(ThisCall) = 3
              /\ IsPost(ThisCall[2])
              /\ ThisCall[3] = LogResponse(Body.value)
         ELSE Logs(ThisCall) = << LogPrompt(last.prompt) >>

C3_Witness ==
    /\ Responded
    /\ Status = 500
    /\ Body.wellformed
    /\ ~last.result.ok
    /\ Len(ThisCall) = 3
    /\ ThisCall[1] = LogPrompt(last.prompt)
    /\ IsPost(ThisCall[2])
    /\ ThisCall[3] = LogResponse(Body.value)

(***************************************************************************)
(* C4.  A response body that is not valid JSON, or that is valid JSON but  *)
(* lacks the expected success shape (missing `choices`, empty `choices`,   *)
(* missing `message`, missing `content`), makes call_llm raise the wrapped *)
(* failure whose message names the provider; the parsing or indexing       *)
(* exception never reaches the caller unwrapped.  Stated for responses of  *)
(* successful status whose body is not JSON or is a JSON object lacking    *)
(* one of the fields named.                                                *)
(***************************************************************************)
LacksSuccessShape(body) ==
    \/ ~body.wellformed
    \/ /\ body.value.t = "obj"
       /\ ~Content(body.value).ok
       /\ Content(body.value).cls \in {"KeyError", "IndexError"}

C4_MalformedResponseWrapped ==
    (Responded /\ 200 <= Status /\ Status <= 299 /\ LacksSuccessShape(Body)) =>
      /\ Wrapped
      /\ Contains(last.result.text, Provider)

(***************************************************************************)
(* C5.  With valid configuration every invocation calls requests.post      *)
(* exactly once, whatever the outcome and whatever use_cache: after n      *)
(* sequential calls n POSTs have been issued, also when prompts repeat.    *)
(***************************************************************************)
C5_OnePostPerInvocation ==
    ValidConfig =>
      /\ Len(Posts(events)) = calls
      /\ Called => Len(Posts(ThisCall)) = 1

C5_Witness ==
    /\ ValidConfig
    /\ calls >= 2
    /\ events[1] = LogPrompt(last.prompt)
    /\ last.first > 1
    /\ last.result.ok
    /\ Len(Posts(events)) = calls
    /\ Posts(events)[1].json = Posts(events)[calls].json

(***************************************************************************)
(* C6.  With a response of successful status whose body is JSON of shape   *)
(* {choices: [{message: {content: c}}, ...]}, call_llm returns exactly c,  *)
(* the content of the first choice, and raises nothing.                    *)
(***************************************************************************)
HasSuccessShape(value) ==
    /\ value.t = "obj"
    /\ "choices" \in DOMAIN value.v
    /\ value.v["choices"].t = "arr"
    /\ Len(value.v["choices"].v) >= 1
    /\ value.v["choices"].v[1].t = "obj"
    /\ "message" \in DOMAIN value.v["choices"].v[1].v
    /\ value.v["choices"].v[1].v["message"].t = "obj"
    /\ "content" \in DOMAIN value.v["choices"].v[1].v["message"].v

C6_ReturnsFirstChoiceContent ==
    (Responded /\ 200 <= Status /\ Status <= 299
       /\ Body.wellformed /\ HasSuccessShape(Body.value)) =>
      /\ last.result.ok
      /\ last.result.val = Body.value.v["choices"].v[1].v["message"].v["content"]

C6_Witness ==
    /\ Responded
    /\ Status = 200
    /\ Body.wellformed
    /\ HasSuccessShape(Body.value)
    /\ Len(Body.value.v["choices"].v) = 2
    /\ last.result = Ok(JStr("hi"))

(***************************************************************************)
(* C7.  A request carries `Authorization: Bearer <key>` if and only if the *)
(* provider's API key variable is set to a non-empty value; with the key   *)
(* absent or empty it has no Authorization header; Content-Type:           *)
(* application/json is set in both cases.                                  *)
(***************************************************************************)
C7_AuthorizationIffKey ==
    \A i \in DOMAIN events :
       IsPost(events[i]) =>
         /\ "Content-Type" \in DOMAIN events[i].headers
         /\ events[i].headers["Content-Type"] = "application/json"
         /\ IF Missing(Provider \o "_API_KEY")
            THEN DOMAIN events[i].headers = {"Content-Type"}
            ELSE /\ DOMAIN events[i].headers = {"Content-Type", "Authorization"}
                 /\ events[i].headers["Authorization"]
                       = "Bearer " \o environ[Provider \o "_API_KEY"]

C7_Witness ==
    /\ Called
    /\ ValidConfig
    /\ Empty(Provider \o "_API_KEY")
    /\ Len(Posts(ThisCall)) = 1
    /\ Posts(ThisCall)[1].headers = ("Content-Type" :> "application/json")

(***************************************************************************)
(* C8.  For any prompt s the body of the POST has exactly one message,     *)
(* with role "user" and content s unchanged, together with the configured  *)
(* model and temperature 0.7, and it is sent to the base URL with          *)
(* /v1/chat/completions appended, without any normalisation.               *)
(***************************************************************************)
C8_RequestCarriesPromptVerbatim ==
    \A i \in DOMAIN ThisCall :
       IsPost(ThisCall[i]) =>
         /\ ThisCall[i].json.messages = << [role |-> "user", content |-> last.prompt] >>
         /\ ThisCall[i].json.model = environ[Provider \o "_MODEL"]
         /\ ThisCall[i].json.temperature = 7    \* tenths: 0.7
         /\ DOMAIN ThisCall[i].json = {"model", "messages", "temperature"}
         /\ ThisCall[i].url = environ[Provider \o "_BASE_URL"] \o "/v1/chat/completions"

C8_Witness ==
    /\ Called
    /\ last.prompt = "Hello, how are you?"
    /\ Len(Posts(ThisCall)) = 1
    /\ Posts(ThisCall)[1].url = "http://localhost:11434//v1/chat/completions"
    /\ Posts(ThisCall)[1].json.messages[1].content = "Hello, how are you?"

(***************************************************************************)
(* C9.  A transport-level failure of the POST reaches the caller as one    *)
(* wrapped failure whose message names the provider: a failure to reach    *)
(* the host is reported as a connection failure and a request that         *)
(* exceeds the transport timeout is reported as a timeout; nothing is      *)
(* returned and the request is not repeated.                               *)
(***************************************************************************)
C9_TransportFailureReported ==
    TransportFailed =>
      /\ Wrapped
      /\ Contains(last.result.text, Provider)
      /\ Len(Posts(ThisCall)) = 1
      /\ last.net.cls = "ConnectionError"
            => Contains(last.result.text, "Failed to connect")
      /\ last.net.cls \in {"ConnectTimeout", "ReadTimeout"}
            => Contains(last.result.text, "timed out")

(***************************************************************************)
(* C10.  A required variable set to the empty string is treated exactly    *)
(* like an absent one: call_llm raises the configuration error naming that *)
(* variable and posts nothing; when several required variables are absent  *)
(* or empty the error names the first of them in the order provider,       *)
(* model, base URL, and none of the others.                                *)
(***************************************************************************)
FailsNamingOnly(name) ==
    /\ FailsNaming(name)
    /\ last.result.text = RequiredMessage(name)

C10_EmptyIsMissingFirstNamed ==
    Called =>
      IF Missing("LLM_PROVIDER")
      THEN FailsNamingOnly("LLM_PROVIDER")
      ELSE IF Missing(Provider \o "_MODEL")
      THEN /\ FailsNamingOnly(Provider \o "_MODEL")
           /\ ~Contains(last.result.text, "_BASE_URL")
      ELSE Missing(Provider \o "_BASE_URL")
              => /\ FailsNamingOnly(Provider \o "_BASE_URL")
                 /\ ~Contains(last.result.text, "_MODEL")

C10_Witness ==
    /\ Called
    /\ ProviderSelected
    /\ Empty(Provider \o "_MODEL")
    /\ Missing(Provider \o "_BASE_URL")
    /\ last.result = Raise("ValueError", "OLLAMA_MODEL environment variable is required")
    /\ Posts(ThisCall) = << >>

====
